---- MODULE Spec2Model ----
(***************************************************************************)
(* Model of the circuit breaker of src/src/circuit_breaker.rs (the breaker *)
(* with callbacks, handle_failure and handle_success) and of the earlier   *)
(* breaker kept in the crate root src/src/lib.rs.                          *)
(*                                                                         *)
(* Every critical section (the span between lock() and the release of the  *)
(* guard) is one action.  execute is two actions: the section that ends at *)
(* drop(state), and the section entered after the operation f() returned.  *)
(***************************************************************************)
EXTENDS Integers, Sequences, FiniteSets, TLC

\* ---------------------------------------------------------------- bounds
MaxThreshold == 2      \* failure_threshold ranges over 1..MaxThreshold
MaxTimeout   == 1      \* reset_timeout ranges over 0..MaxTimeout clock units
MaxTime      == 2      \* the clock runs from 0 to MaxTime
MaxFailures  == 3      \* failures is capped here (u32 in the code)
NumThreads   == 2      \* threads calling execute concurrently
NumCallbacks == 1      \* distinct closures a caller may register per slot

Threads   == 1..NumThreads
Callbacks == 1..NumCallbacks

\* ------------------------------------------------------------ data types
\* Option<T>: None is the empty sequence, Some(x) the one-element sequence.
None    == << >>
Some(x) == << x >>
IsSome(o) == o # None
Unwrap(o) == o[1]

\* enum CircuitState
CircuitState == {"Closed", "Open", "HalfOpen"}

\* enum CircuitBreakerError { CircuitOpen }, as a value of a concrete type.
CircuitOpen == [type |-> "CircuitBreakerError", val |-> "CircuitOpen"]

\* Errors the wrapped operation can return (E: Error + 'static).  The type
\* CircuitBreakerError is public, so an operation can return it as well.
OpErrors == { [type |-> "io::Error", val |-> "error"], CircuitOpen }

\* Results of the wrapped operation f(): Result<T, E>.
OpResults == { [ok |-> TRUE, val |-> 42] } \cup
             { [ok |-> FALSE, err |-> e] : e \in OpErrors }

\* Box::new(e) as Box<dyn Error>: the value keeps its concrete type, which
\* is all that downcast_ref can recover from it.
Box(e) == [type |-> e.type, val |-> e.val]

\* Result<T, Box<dyn Error>> returned by execute.
Ok(v)  == [tag |-> "Ok", val |-> v]
Err(b) == [tag |-> "Err", box |-> b]

\* result.unwrap_err().downcast_ref::<CircuitBreakerError>() matches
\* Some(CircuitBreakerError::CircuitOpen)
IsCircuitOpen(r) ==
    /\ r.tag = "Err"
    /\ r.box.type = "CircuitBreakerError"
    /\ r.box.val = "CircuitOpen"

VARIABLES
    failure_threshold,  \* CircuitBreaker.failure_threshold
    reset_timeout,      \* CircuitBreaker.reset_timeout
    now,                \* the monotonic clock read by Instant::now()
    cb,                 \* the CircuitBreakerState behind the mutex
    pc,                 \* per thread: "idle", or "op" while f() is running
    current_state,      \* per thread: the local current_state of execute
    call,               \* per thread: bookkeeping of the execute call in flight
    last,               \* what the most recent operation did and returned
    streak,             \* failures recorded in a row since Closed with count 0
    mutex,              \* the Mutex around cb: who holds it, is it poisoned
    failed_at,          \* when the most recent failure was recorded, if any
    recovering,         \* TRUE once no failure is reported any more
    lib,                \* the breaker state of src/src/lib.rs
    lib_pc              \* per thread: position in lib.rs execute

cbvars  == << cb, pc, current_state, call, streak, mutex, failed_at,
              recovering >>
libvars == << lib, lib_pc >>
vars    == << failure_threshold, reset_timeout, now, cb, pc, current_state,
              call, last, streak, mutex, failed_at, recovering, lib, lib_pc >>

\* ------------------------------------------------- time and callbacks
\* Instant::elapsed() of a recorded instant.
elapsed(t) == now - t

\* `if let Some(ref callback) = slot { callback(); }`: the invocations made.
Invoke(slot, o) ==
    IF IsSome(o) THEN << [slot |-> slot, id |-> Unwrap(o)] >> ELSE << >>

\* The record a critical section leaves behind: the struct and the
\* callbacks it invoked, in order.
Quiet(s) == [s |-> s, fired |-> << >>]

\* ------------------------------------------ src/src/circuit_breaker.rs
\* CircuitBreaker::new
new == [state |-> "Closed", failures |-> 0, last_failure_time |-> None,
        on_open |-> None, on_close |-> None, on_half_open |-> None]

\* trip that invokes on_open but leaves the state as it is.
trip_no_open(s) == [s |-> s, fired |-> Invoke("on_open", s.on_open)]

\* fn trip(&self, state: &mut CircuitBreakerState)
trip(s) ==
    [s |-> [s EXCEPT !.state = "Open"], fired |-> Invoke("on_open", s.on_open)]

\* fn reset(&self, state: &mut CircuitBreakerState)
reset(s) ==
    [s     |-> [s EXCEPT !.state = "Closed", !.failures = 0],
     fired |-> Invoke("on_close", s.on_close)]

\* handle_failure that records the time only when the circuit is not Open.
handle_failure_no_restart(s) ==
    LET s1 == [s EXCEPT !.failures = @ + 1,
                        !.last_failure_time =
                            IF s.state = "Open" THEN @ ELSE Some(now)]
    IN  IF s1.failures >= failure_threshold THEN trip(s1) ELSE Quiet(s1)

\* handle_failure that never records the time of the failure.
handle_failure_no_time(s) ==
    LET s1 == [s EXCEPT !.failures = @ + 1]
    IN  IF s1.failures >= failure_threshold THEN trip(s1) ELSE Quiet(s1)

\* handle_failure with the threshold compared by > instead of >=.
handle_failure_gt(s) ==
    LET s1 == [s EXCEPT !.failures = @ + 1, !.last_failure_time = Some(now)]
    IN  IF s1.failures > failure_threshold THEN trip(s1) ELSE Quiet(s1)

\* pub fn handle_failure(&self)
handle_failure(s) ==
    LET s1 == [s EXCEPT !.failures = @ + 1, !.last_failure_time = Some(now)]
    IN  IF s1.failures >= failure_threshold THEN trip(s1) ELSE Quiet(s1)

\* handle_success that closes the circuit whatever its state.
handle_success_always_reset(s) == reset([s EXCEPT !.failures = 0])

\* handle_success that clears the count only when it does not close.
handle_success_close_only(s) ==
    IF s.state = "HalfOpen"
    THEN [s |-> [s EXCEPT !.state = "Closed"],
          fired |-> Invoke("on_close", s.on_close)]
    ELSE Quiet([s EXCEPT !.failures = 0])

\* handle_success that clears the count but forgets to close the circuit.
handle_success_no_reset(s) == Quiet([s EXCEPT !.failures = 0])

\* pub fn handle_success(&self)
handle_success(s) ==
    LET s1 == [s EXCEPT !.failures = 0]
    IN  IF s1.state = "HalfOpen" THEN reset(s1) ELSE Quiet(s1)

\* state() that tests the timeout without testing for Open first.
state_refire(s) ==
    LET r == IF /\ s.state # "Closed"
                /\ IsSome(s.last_failure_time)
                /\ elapsed(Unwrap(s.last_failure_time)) >= reset_timeout
             THEN [s     |-> [s EXCEPT !.state = "HalfOpen"],
                   fired |-> Invoke("on_half_open", s.on_half_open)]
             ELSE Quiet(s)
    IN  [s |-> r.s, fired |-> r.fired, ret |-> r.s.state]

\* pub fn state(&self) -> CircuitState
state(s) ==
    LET r == IF /\ s.state = "Open"
                /\ IsSome(s.last_failure_time)
                /\ elapsed(Unwrap(s.last_failure_time)) >= reset_timeout
             THEN [s     |-> [s EXCEPT !.state = "HalfOpen"],
                   fired |-> Invoke("on_half_open", s.on_half_open)]
             ELSE Quiet(s)
    IN  [s |-> r.s, fired |-> r.fired, ret |-> r.s.state]

\* execute that counts a rejected call as a failure.
execute_lock_reject_counts(s) ==
    IF s.state = "Open" /\ IsSome(s.last_failure_time)
    THEN IF elapsed(Unwrap(s.last_failure_time)) >= reset_timeout
         THEN [s     |-> [s EXCEPT !.state = "HalfOpen"],
               fired |-> Invoke("on_half_open", s.on_half_open),
               ret   |-> None]
         ELSE [s     |-> [s EXCEPT !.failures = @ + 1],
               fired |-> << >>,
               ret   |-> Some(Err(Box(CircuitOpen)))]
    ELSE [s |-> s, fired |-> << >>, ret |-> None]

\* execute whose Open branch lost its early return.
execute_lock_no_reject(s) ==
    IF s.state = "Open" /\ IsSome(s.last_failure_time)
    THEN IF elapsed(Unwrap(s.last_failure_time)) >= reset_timeout
         THEN [s     |-> [s EXCEPT !.state = "HalfOpen"],
               fired |-> Invoke("on_half_open", s.on_half_open),
               ret   |-> None]
         ELSE [s |-> s, fired |-> << >>, ret |-> None]
    ELSE [s |-> s, fired |-> << >>, ret |-> None]

\* execute with the timeout compared by > instead of >=.
execute_lock_gt(s) ==
    IF s.state = "Open" /\ IsSome(s.last_failure_time)
    THEN IF elapsed(Unwrap(s.last_failure_time)) > reset_timeout
         THEN [s     |-> [s EXCEPT !.state = "HalfOpen"],
               fired |-> Invoke("on_half_open", s.on_half_open),
               ret   |-> None]
         ELSE [s |-> s, fired |-> << >>, ret |-> Some(Err(Box(CircuitOpen)))]
    ELSE [s |-> s, fired |-> << >>, ret |-> None]

\* execute that tests the timeout in every state, not only when Open.
execute_lock_any_state(s) ==
    IF IsSome(s.last_failure_time)
    THEN IF elapsed(Unwrap(s.last_failure_time)) >= reset_timeout
         THEN [s     |-> [s EXCEPT !.state = "HalfOpen"],
               fired |-> Invoke("on_half_open", s.on_half_open),
               ret   |-> None]
         ELSE IF s.state = "Open"
              THEN [s |-> s, fired |-> << >>,
                    ret |-> Some(Err(Box(CircuitOpen)))]
              ELSE [s |-> s, fired |-> << >>, ret |-> None]
    ELSE [s |-> s, fired |-> << >>, ret |-> None]

\* execute, from lock() to drop(state): ret is Some(error) on the early
\* return, None when the call goes on to invoke f.
execute_lock(s) ==
    IF s.state = "Open" /\ IsSome(s.last_failure_time)
    THEN IF elapsed(Unwrap(s.last_failure_time)) >= reset_timeout
         THEN [s     |-> [s EXCEPT !.state = "HalfOpen"],
               fired |-> Invoke("on_half_open", s.on_half_open),
               ret   |-> None]
         ELSE [s |-> s, fired |-> << >>, ret |-> Some(Err(Box(CircuitOpen)))]
    ELSE [s |-> s, fired |-> << >>, ret |-> None]

\* execute whose `match f()` tests current_state the wrong way round.
execute_match_inverted(s, cur, r) ==
    IF r.ok
    THEN LET h == IF cur # "HalfOpen" THEN handle_success(s) ELSE Quiet(s)
         IN  [s |-> h.s, fired |-> h.fired, ret |-> Ok(r.val)]
    ELSE LET h == handle_failure(s)
         IN  [s |-> h.s, fired |-> h.fired, ret |-> Err(Box(r.err))]

\* execute, the `match f()` after the lock was released: r is what f
\* returned, cur the local current_state.
execute_match(s, cur, r) ==
    IF r.ok
    THEN LET h == IF cur = "HalfOpen" THEN handle_success(s) ELSE Quiet(s)
         IN  [s |-> h.s, fired |-> h.fired, ret |-> Ok(r.val)]
    ELSE LET h == handle_failure(s)
         IN  [s |-> h.s, fired |-> h.fired, ret |-> Err(Box(r.err))]

\* set_on_open that leaves a closure registered earlier in its place.
set_on_open_keep(s, c) ==
    IF IsSome(s.on_open) THEN s ELSE [s EXCEPT !.on_open = Some(c)]

\* pub fn set_on_open
set_on_open(s, c) == [s EXCEPT !.on_open = Some(c)]

\* pub fn set_on_close
set_on_close(s, c) == [s EXCEPT !.on_close = Some(c)]

\* pub fn set_on_half_open
set_on_half_open(s, c) == [s EXCEPT !.on_half_open = Some(c)]

\* ------------------------------------------------------ src/src/lib.rs
\* CircuitBreaker::new of lib.rs
lib_new == [state |-> "Closed", failures |-> 0, last_failure_time |-> None]

\* lib.rs execute, from lock() to drop(state)
lib_execute_lock(s) ==
    IF s.state = "Open" /\ IsSome(s.last_failure_time)
    THEN IF elapsed(Unwrap(s.last_failure_time)) >= reset_timeout
         THEN [s |-> [s EXCEPT !.state = "HalfOpen"], ret |-> None]
         ELSE [s |-> s, ret |-> Some(Err(Box(CircuitOpen)))]
    ELSE [s |-> s, ret |-> None]

\* lib.rs execute, the `match f()`
lib_execute_match(s, r) ==
    IF r.ok
    THEN [s   |-> [s EXCEPT !.failures = 0, !.state = "Closed"],
          ret |-> Ok(r.val)]
    ELSE LET s1 == [s EXCEPT !.failures = @ + 1,
                             !.last_failure_time = Some(now)]
         IN  [s   |-> IF s1.failures >= failure_threshold
                      THEN [s1 EXCEPT !.state = "Open"] ELSE s1,
              ret |-> Err(Box(r.err))]

\* lib.rs state()
lib_state(s) == s.state

\* ------------------------------------------------------------ the mutex
\* A closure that calls state() of the breaker it is registered with.
Reentrant == NumCallbacks + 1

\* Callback c calls back into the breaker.
Reenters(c) == c = Reentrant

\* Mutex::new
mutex_new == [holder |-> None, poisoned |-> FALSE]

\* self.state.lock().unwrap() returns: nobody holds the mutex and it is
\* not poisoned.
Free == mutex.holder = None /\ ~mutex.poisoned

\* lock() by caller h, who holds the mutex already: std leaves it open
\* whether the call blocks for ever or panics; the panic unwinds through
\* the guard, which poisons and releases the mutex.
Relock(h) == { [holder |-> Some(h), poisoned |-> FALSE],
               [holder |-> None, poisoned |-> TRUE] }

\* One of the callbacks invoked inside a critical section calls back.
Wedges(fired) == \E i \in 1..Len(fired) : Reenters(fired[i].id)

\* execute without its drop(state): thread t keeps the guard while f runs.
execute_no_drop(t) == Some(t)

\* execute, drop(state): who holds the mutex while f runs in thread t.
execute_drop(t) == None

\* ----------------------------------------------------------- bookkeeping
NoCall == [entry |-> "Closed", fired |-> << >>, alone |-> TRUE]

\* Another caller got the lock: every execute call in flight, except
\* that of thread t, has been interleaved with.
Interleave(t) ==
    [u \in Threads |-> IF u # t /\ pc[u] = "op"
                       THEN [call[u] EXCEPT !.alone = FALSE] ELSE call[u]]

\* Failures recorded in a row since the breaker was Closed with count 0,
\* or -1 when something else happened since.
NextStreak(s2, recorded) ==
    IF recorded THEN (IF streak >= 0 THEN streak + 1 ELSE -1)
    ELSE IF s2.state = "Closed" /\ s2.failures = 0 THEN 0
    ELSE IF s2.state = cb.state /\ s2.failures = cb.failures THEN streak
    ELSE -1

Init ==
    /\ failure_threshold \in 1..MaxThreshold
    /\ reset_timeout \in 0..MaxTimeout
    /\ now = 0
    /\ cb = new
    /\ pc = [t \in Threads |-> "idle"]
    /\ current_state = [t \in Threads |-> "Closed"]
    /\ call = [t \in Threads |-> NoCall]
    /\ last = [op |-> "new"]
    /\ streak = 0
    /\ mutex = mutex_new
    /\ failed_at = None
    /\ recovering = FALSE
    /\ lib = lib_new
    /\ lib_pc = [t \in Threads |-> "idle"]

config == << failure_threshold, reset_timeout >>

\* Time passes.
Tick ==
    /\ now < MaxTime
    /\ now' = now + 1
    /\ last' = [op |-> "tick"]
    /\ UNCHANGED << config, cbvars, libvars >>

\* A critical section of caller h, inside operation op, invoked a callback
\* that calls back into the breaker: what the section wrote before the
\* callback stays, and the operation never returns.
Wedge(h, op, r, recorded) ==
    /\ cb' = r.s
    /\ mutex' \in Relock(h)
    /\ last' = [op |-> "wedged", in |-> op, pre |-> cb.state,
                fired |-> r.fired]
    /\ streak' = NextStreak(r.s, recorded)
    /\ failed_at' = IF recorded THEN Some(now) ELSE failed_at
    /\ call' = Interleave(h)
    /\ pc' = IF h \in Threads THEN [pc EXCEPT ![h] = "wedged"] ELSE pc
    /\ UNCHANGED current_state

\* Thread t calls execute and runs it up to the invocation of f.
ExecuteEnter(t) ==
    /\ pc[t] = "idle"
    /\ Free
    /\ LET r == execute_lock(cb) IN
        IF Wedges(r.fired) THEN Wedge(t, "execute", r, FALSE) ELSE
        /\ cb' = r.s
        /\ streak' = NextStreak(r.s, FALSE)
        /\ IF IsSome(r.ret)
           THEN /\ last' = [op |-> "execute", phase |-> "enter",
                            t |-> t, pre |-> cb.state,
                            done |-> TRUE, invoked |-> 0,
                            ret |-> Unwrap(r.ret), fired |-> r.fired,
                            entry |-> cb.state, alone |-> TRUE]
                /\ call' = Interleave(t)
                /\ UNCHANGED << pc, current_state, mutex >>
           ELSE /\ pc' = [pc EXCEPT ![t] = "op"]
                /\ current_state' = [current_state EXCEPT ![t] = r.s.state]
                /\ mutex' = [mutex EXCEPT !.holder = execute_drop(t)]
                /\ call' = [Interleave(t) EXCEPT
                              ![t] = [entry |-> cb.state, fired |-> r.fired,
                                      alone |-> TRUE]]
                /\ last' = [op |-> "execute", phase |-> "enter",
                            t |-> t, pre |-> cb.state,
                            done |-> FALSE, invoked |-> 1,
                            fired |-> r.fired]
        /\ UNCHANGED failed_at
    /\ UNCHANGED << config, now, recovering, libvars >>

\* `match f()` takes the lock (through handle_success or handle_failure)
\* unless f succeeded and current_state is not HalfOpen.
NeedsLock(cur, r) == ~r.ok \/ cur = "HalfOpen"

\* The operation f of thread t returns r and execute runs to its end.
ExecuteReturn(t, r) ==
    /\ pc[t] = "op"
    /\ r.ok \/ cb.failures < MaxFailures
    /\ r.ok \/ ~recovering
    /\ NeedsLock(current_state[t], r) => Free
    /\ LET m == execute_match(cb, current_state[t], r) IN
        IF Wedges(m.fired) THEN Wedge(t, "execute", m, ~r.ok) ELSE
        /\ cb' = m.s
        /\ streak' = NextStreak(m.s, ~r.ok)
        /\ failed_at' = IF r.ok THEN failed_at ELSE Some(now)
        /\ last' = [op |-> "execute", phase |-> "return",
                    t |-> t, pre |-> cb.state,
                    done |-> TRUE, invoked |-> 1, result |-> r,
                    ret |-> m.ret, fired |-> call[t].fired \o m.fired,
                    entry |-> call[t].entry, alone |-> call[t].alone,
                    current_state |-> current_state[t]]
        /\ pc' = [pc EXCEPT ![t] = "idle"]
        /\ current_state' = [current_state EXCEPT ![t] = "Closed"]
        /\ call' = [Interleave(t) EXCEPT ![t] = NoCall]
        /\ mutex' = IF mutex.holder = Some(t)
                    THEN [mutex EXCEPT !.holder = None] ELSE mutex
    /\ UNCHANGED << config, now, recovering, libvars >>

\* A caller polls state().
State ==
    /\ Free
    /\ LET r == state(cb) IN
        IF Wedges(r.fired) THEN Wedge(0, "state", r, FALSE) ELSE
        /\ cb' = r.s
        /\ streak' = NextStreak(r.s, FALSE)
        /\ last' = [op |-> "state", pre |-> cb.state, ret |-> r.ret,
                    fired |-> r.fired]
        /\ call' = Interleave(0)
        /\ UNCHANGED << pc, current_state, mutex, failed_at >>
    /\ UNCHANGED << config, now, recovering, libvars >>

\* A caller reports a failure.
HandleFailure ==
    /\ cb.failures < MaxFailures
    /\ ~recovering
    /\ Free
    /\ LET r == handle_failure(cb) IN
        IF Wedges(r.fired) THEN Wedge(0, "handle_failure", r, TRUE) ELSE
        /\ cb' = r.s
        /\ streak' = NextStreak(r.s, TRUE)
        /\ failed_at' = Some(now)
        /\ last' = [op |-> "handle_failure", pre |-> cb.state,
                    fired |-> r.fired]
        /\ call' = Interleave(0)
        /\ UNCHANGED << pc, current_state, mutex >>
    /\ UNCHANGED << config, now, recovering, libvars >>

\* A caller reports a success.
HandleSuccess ==
    /\ Free
    /\ LET r == handle_success(cb) IN
        IF Wedges(r.fired) THEN Wedge(0, "handle_success", r, FALSE) ELSE
        /\ cb' = r.s
        /\ streak' = NextStreak(r.s, FALSE)
        /\ last' = [op |-> "handle_success", pre |-> cb.state,
                    fired |-> r.fired]
        /\ call' = Interleave(0)
        /\ UNCHANGED << pc, current_state, mutex, failed_at >>
    /\ UNCHANGED << config, now, recovering, libvars >>

\* A caller registers closure c in a callback slot, whose content was o.
SetCallback(slot, c, o, s2) ==
    /\ Free
    /\ cb' = s2
    /\ last' = [op |-> slot, pre |-> cb.state, fired |-> << >>,
                arg |-> c, replaced |-> o]
    /\ call' = Interleave(0)
    /\ UNCHANGED << config, now, pc, current_state, streak, mutex, failed_at,
                    recovering, libvars >>

SetOnOpen(c) ==
    SetCallback("set_on_open", c, cb.on_open, set_on_open(cb, c))
SetOnClose(c) ==
    SetCallback("set_on_close", c, cb.on_close, set_on_close(cb, c))
SetOnHalfOpen(c) ==
    SetCallback("set_on_half_open", c, cb.on_half_open,
                set_on_half_open(cb, c))

Next ==
    \/ Tick
    \/ \E t \in Threads : ExecuteEnter(t)
    \/ \E t \in Threads, r \in OpResults : ExecuteReturn(t, r)
    \/ State
    \/ HandleFailure
    \/ HandleSuccess
    \/ \E c \in Callbacks : SetOnOpen(c)
    \/ \E c \in Callbacks : SetOnClose(c)
    \/ \E c \in Callbacks : SetOnHalfOpen(c)

Spec == Init /\ [][Next]_vars

\* --------------------------------------- callbacks that call the breaker
\* As Next, with the closure that calls state() as the one registered.
NextReentrant ==
    \/ Tick
    \/ \E t \in Threads : ExecuteEnter(t)
    \/ \E t \in Threads, r \in OpResults : ExecuteReturn(t, r)
    \/ State
    \/ HandleFailure
    \/ HandleSuccess
    \/ SetOnOpen(Reentrant)
    \/ SetOnClose(Reentrant)
    \/ SetOnHalfOpen(Reentrant)

SpecReentrant == Init /\ [][NextReentrant]_vars

\* ------------------------------------------------ replacing a callback
\* The closures that do not call the breaker, one more than Callbacks, so
\* that a slot can hold a closure and be given a different one.
Closures == (1..(NumCallbacks + 2)) \ {Reentrant}

\* Every closure of Closures is registered in every slot, by callers that
\* also report outcomes and read the state while one thread calls execute.
NextRegister ==
    \/ Tick
    \/ ExecuteEnter(1)
    \/ \E r \in OpResults : ExecuteReturn(1, r)
    \/ State
    \/ HandleFailure
    \/ HandleSuccess
    \/ \E c \in Closures : SetOnOpen(c)
    \/ \E c \in Closures : SetOnClose(c)
    \/ \E c \in Closures : SetOnHalfOpen(c)

SpecRegister == Init /\ [][NextRegister]_vars

\* ------------------------------------------------------------- recovery
\* An instant, seen one clock unit later by a clock that stays at MaxTime.
\* Only differences now - t are ever used, and they are compared with
\* reset_timeout <= MaxTimeout <= MaxTime.
Shift(o) == IF IsSome(o) /\ Unwrap(o) > 0 THEN Some(Unwrap(o) - 1) ELSE o

\* Time passes beyond MaxTime: recorded instants recede instead.
TickShift ==
    /\ now = MaxTime
    /\ cb' = [cb EXCEPT !.last_failure_time = Shift(@)]
    /\ failed_at' = Shift(failed_at)
    /\ lib' = [lib EXCEPT !.last_failure_time = Shift(@)]
    /\ last' = [op |-> "tick"]
    /\ UNCHANGED << config, now, pc, current_state, call, streak, mutex,
                    recovering, lib_pc >>

\* From here on the dependency is healthy: operations succeed and nobody
\* reports a failure.
Recover ==
    /\ ~recovering
    /\ recovering' = TRUE
    /\ last' = [op |-> "recover"]
    /\ UNCHANGED << config, now, cb, pc, current_state, call, streak, mutex,
                    failed_at, libvars >>

\* Of the callbacks, which do not touch the breaker, on_close stands for
\* all three here.
NextLive ==
    \/ Tick
    \/ TickShift
    \/ Recover
    \/ \E t \in Threads : ExecuteEnter(t)
    \/ \E t \in Threads, r \in OpResults : ExecuteReturn(t, r)
    \/ State
    \/ HandleFailure
    \/ HandleSuccess
    \/ \E c \in Callbacks : SetOnClose(c)

\* Time keeps advancing, every thread keeps calling execute, and every
\* operation returns.
Fairness ==
    /\ WF_vars(Tick \/ TickShift)
    /\ \A t \in Threads : WF_vars(ExecuteEnter(t))
    /\ \A t \in Threads : WF_vars(ExecuteReturn(t, [ok |-> TRUE, val |-> 42]))

SpecLive == Init /\ [][NextLive]_vars /\ Fairness

\* ------------------------------------------------ the breaker of lib.rs
LibExecuteEnter(t) ==
    /\ lib_pc[t] = "idle"
    /\ LET r == lib_execute_lock(lib) IN
        /\ lib' = r.s
        /\ IF IsSome(r.ret)
           THEN /\ last' = [op |-> "lib_execute", phase |-> "enter",
                            t |-> t, pre |-> lib.state,
                            done |-> TRUE, invoked |-> 0,
                            ret |-> Unwrap(r.ret)]
                /\ UNCHANGED lib_pc
           ELSE /\ last' = [op |-> "lib_execute", phase |-> "enter",
                            t |-> t, pre |-> lib.state,
                            done |-> FALSE, invoked |-> 1]
                /\ lib_pc' = [lib_pc EXCEPT ![t] = "op"]
    /\ UNCHANGED << config, now, cbvars >>

LibExecuteReturn(t, r) ==
    /\ lib_pc[t] = "op"
    /\ r.ok \/ lib.failures < MaxFailures
    /\ LET m == lib_execute_match(lib, r) IN
        /\ lib' = m.s
        /\ last' = [op |-> "lib_execute", phase |-> "return",
                    t |-> t, pre |-> lib.state,
                    done |-> TRUE, invoked |-> 1, result |-> r,
                    ret |-> m.ret]
    /\ lib_pc' = [lib_pc EXCEPT ![t] = "idle"]
    /\ UNCHANGED << config, now, cbvars >>

LibState ==
    /\ last' = [op |-> "lib_state", pre |-> lib.state, ret |-> lib_state(lib)]
    /\ UNCHANGED << config, now, cbvars, libvars >>

NextLib ==
    \/ Tick
    \/ \E t \in Threads : LibExecuteEnter(t)
    \/ \E t \in Threads, r \in OpResults : LibExecuteReturn(t, r)
    \/ LibState

SpecLib == Init /\ [][NextLib]_vars

TypeOK ==
    /\ cb.state \in CircuitState
    /\ cb.failures \in 0..MaxFailures
    /\ now \in 0..MaxTime
    /\ streak \in -1..MaxFailures

\* ------------------------------------------------------------ the claims
\* The callbacks of one slot among the invocations f.
OfSlot(f, slot) == SelectSeq(f, LAMBDA c : c.slot = slot)

\* The most recent operation was execute's first critical section.
EnteredExecute == last.op = "execute" /\ last.phase = "enter"

\* The most recent operation was execute's `match f()`.
ReturnedExecute == last.op = "execute" /\ last.phase = "return"

\* The reset timeout has run out for the recorded last failure.
TimedOut ==
    /\ IsSome(cb.last_failure_time)
    /\ elapsed(Unwrap(cb.last_failure_time)) >= reset_timeout

\* C1: starting Closed with failure count 0, the breaker is Open after
\* failure_threshold or more failures recorded in a row (by handle_failure
\* or by failing execute calls) and still Closed after fewer.
C1_ThresholdOpens ==
    streak >= 0 =>
        /\ cb.failures = streak
        /\ cb.state = IF streak >= failure_threshold THEN "Open" ELSE "Closed"

C1_Witness ==
    /\ failure_threshold = MaxThreshold
    /\ streak = failure_threshold
    /\ ReturnedExecute
    /\ cb.state = "Open"

\* C2: an execute call that finds the breaker Open with less than
\* reset_timeout elapsed since last_failure_time returns CircuitOpen
\* without invoking the operation, whatever other threads are doing.
C2_OpenRejects ==
    ( /\ EnteredExecute
      /\ last.pre = "Open"
      /\ IsSome(cb.last_failure_time)
      /\ elapsed(Unwrap(cb.last_failure_time)) < reset_timeout )
    => /\ last.done
       /\ last.invoked = 0
       /\ IsCircuitOpen(last.ret)
       /\ pc[last.t] = "idle"
       /\ cb.state = "Open"

C2_Witness ==
    /\ EnteredExecute
    /\ last.pre = "Open"
    /\ last.done
    /\ last.invoked = 0
    /\ ~TimedOut
    /\ \E u \in Threads : pc[u] = "op"

\* C3: a successful execute call made while the breaker is Closed, with no
\* other call interleaved, leaves the failure count at zero.
C3_SuccessResetsCount ==
    ( /\ ReturnedExecute
      /\ last.result.ok
      /\ last.entry = "Closed"
      /\ last.alone )
    => cb.failures = 0

\* C4: a failing execute call admitted while the breaker is HalfOpen, with
\* no other call interleaved, leaves the breaker Open and invokes on_open.
C4_HalfOpenFailureOpens ==
    ( /\ ReturnedExecute
      /\ ~last.result.ok
      /\ last.current_state = "HalfOpen"
      /\ last.alone )
    => /\ cb.state = "Open"
       /\ OfSlot(last.fired, "on_open") = Invoke("on_open", cb.on_open)

\* C5: a state() or execute() call that finds the breaker Open with at
\* least reset_timeout elapsed since last_failure_time makes it HalfOpen and
\* invokes on_half_open once; state() returns HalfOpen and execute goes on
\* to invoke the operation.
C5_TimeoutHalfOpens ==
    ( /\ last.op = "state" \/ EnteredExecute
      /\ last.pre = "Open"
      /\ TimedOut )
    => /\ cb.state = "HalfOpen"
       /\ last.fired = Invoke("on_half_open", cb.on_half_open)
       /\ last.op = "state" => last.ret = "HalfOpen"
       /\ last.op = "execute" =>
            /\ ~last.done
            /\ last.invoked = 1
            /\ pc[last.t] = "op"
            /\ current_state[last.t] = "HalfOpen"

C5_Witness ==
    /\ EnteredExecute
    /\ last.pre = "Open"
    /\ reset_timeout = MaxTimeout
    /\ cb.state = "HalfOpen"
    /\ Len(last.fired) = 1

\* C6: an execute call admitted while HalfOpen whose operation succeeds,
\* with no other call interleaved, returns the operation's value, leaves the
\* breaker Closed with failure count 0 and invokes on_close once.
C6_HalfOpenSuccessCloses ==
    ( /\ ReturnedExecute
      /\ last.result.ok
      /\ last.current_state = "HalfOpen"
      /\ last.alone )
    => /\ last.ret = Ok(last.result.val)
       /\ cb.state = "Closed"
       /\ cb.failures = 0
       /\ OfSlot(last.fired, "on_close") = Invoke("on_close", cb.on_close)

C6_Witness ==
    /\ ReturnedExecute
    /\ last.result.ok
    /\ last.current_state = "HalfOpen"
    /\ last.alone
    /\ last.entry = "Open"
    /\ cb.state = "Closed"
    /\ Len(OfSlot(last.fired, "on_close")) = 1

\* C7 as stated: every execute call invokes at most one callback.
C7_AtMostOneCallback ==
    (last.op = "execute" /\ last.done) => Len(last.fired) <= 1

\* C7 as amended: an execute call invokes at most one callback, except a
\* call that enters while Open with the reset timeout elapsed, which invokes
\* on_half_open on entry and at most one of on_open and on_close after the
\* operation.
C7_AtMostTwoCallbacks ==
    (last.op = "execute" /\ last.done) =>
        /\ Len(last.fired) <= 2
        /\ last.entry # "Open" => Len(last.fired) <= 1
        /\ Len(last.fired) = 2 =>
              /\ last.fired[1].slot = "on_half_open"
              /\ last.fired[2].slot \in {"on_open", "on_close"}

C7_Witness ==
    /\ ReturnedExecute
    /\ last.entry = "Open"
    /\ Len(last.fired) = 2

\* The edges of the state machine.
LegalEdge(a, b) ==
    \/ a = b
    \/ << a, b >> \in { << "Closed", "Open" >>, << "Open", "HalfOpen" >>,
                        << "HalfOpen", "Closed" >>, << "HalfOpen", "Open" >> }

\* C8: every operation of either breaker changes the state along an edge
\* Closed->Open, Open->HalfOpen, HalfOpen->Closed or HalfOpen->Open.
C8_OnlyLegalEdges ==
    /\ last.op \in {"execute", "state", "handle_failure", "handle_success"}
         => LegalEdge(last.pre, cb.state)
    /\ last.op \in {"lib_execute", "lib_state"}
         => LegalEdge(last.pre, lib.state)

\* C9: execute returns CircuitOpen exactly when the operation was not
\* invoked; otherwise it was invoked once and execute returns its value or
\* its own error, which is not CircuitOpen.
C9_OutcomeClassifies ==
    (last.op = "execute" /\ last.done) =>
        /\ IsCircuitOpen(last.ret) <=> last.invoked = 0
        /\ last.invoked \in {0, 1}
        /\ last.invoked = 1 =>
              IF last.result.ok
              THEN last.ret = Ok(last.result.val)
              ELSE /\ last.ret.tag = "Err"
                   /\ last.ret.box = last.result.err
                   /\ ~IsCircuitOpen(last.ret)

\* C10: a state() call made while the breaker is HalfOpen or Closed returns
\* that state, invokes no callback and changes nothing of the breaker.
C10_StateIdempotent ==
    [][ (last'.op = "state" /\ cb.state \in {"HalfOpen", "Closed"}) =>
            /\ cb' = cb
            /\ last'.ret = cb.state
            /\ last'.fired = << >> ]_vars

C10_Witness ==
    /\ last.op = "state"
    /\ last.pre = "HalfOpen"
    /\ cb.state = "HalfOpen"
    /\ IsSome(cb.on_half_open)
    /\ TimedOut

\* C11: while the operation of an execute call runs, the calling thread
\* does not hold the mutex: nobody holds it, and another caller's state()
\* or handle_success() can take it.
C11_OperationOutsideLock ==
    \A t \in Threads :
        pc[t] = "op" =>
            /\ mutex.holder # Some(t)
            /\ Free
            /\ ENABLED State
            /\ ENABLED HandleSuccess

C11_Witness ==
    /\ \E t \in Threads : pc[t] = "op"
    /\ last.op = "state"
    /\ last.pre = "Open"
    /\ cb.state = "HalfOpen"

\* C12: a callback that calls an operation of the breaker it is registered
\* with completes: no operation is left stuck in its critical section, with
\* the mutex held for ever or poisoned.
C12_CallbacksOutsideLock ==
    /\ mutex.holder = None
    /\ ~mutex.poisoned
    /\ \A t \in Threads : pc[t] # "wedged"

\* C13: once no failure is reported any more, with time advancing and
\* threads calling execute with operations that succeed, the breaker
\* becomes Closed and stays Closed, its mutex free, so that every execute
\* invokes its operation.
C13_Recovers ==
    [](recovering => <>[](cb.state = "Closed" /\ Free))

C13_Witness ==
    /\ recovering
    /\ ReturnedExecute
    /\ last.entry = "Open"
    /\ last.pre = "HalfOpen"
    /\ cb.state = "Closed"

\* C14: on_open is invoked at most once by a handle_failure or by the
\* failure path of execute, and only when that call changes the state into
\* Open: not when the breaker was Open already.
C14_OnOpenOncePerChange ==
    (last.op = "handle_failure" \/ ReturnedExecute) =>
        LET n == Len(OfSlot(last.fired, "on_open")) IN
        /\ n <= 1
        /\ n = 1 => (last.pre # "Open" /\ cb.state = "Open")

\* C15: of the execute calls admitted while HalfOpen whose operations
\* succeed, the one that finds the state HalfOpen closes the circuit and
\* invokes on_close once; one that finds it changed already leaves the state
\* as it is and invokes nothing.
C15_OneCloseReset ==
    (ReturnedExecute /\ last.result.ok /\ last.current_state = "HalfOpen") =>
        IF last.pre = "HalfOpen"
        THEN /\ cb.state = "Closed"
             /\ OfSlot(last.fired, "on_close") = Invoke("on_close", cb.on_close)
        ELSE /\ cb.state = last.pre
             /\ OfSlot(last.fired, "on_close") = << >>
             /\ OfSlot(last.fired, "on_open") = << >>

C15_Witness ==
    /\ ReturnedExecute
    /\ last.result.ok
    /\ last.current_state = "HalfOpen"
    /\ last.entry = "HalfOpen"
    /\ ~last.alone
    /\ last.pre = "Closed"
    /\ cb.state = "Closed"
    /\ IsSome(cb.on_close)

\* C16: the breaker leaves Open, or admits an operation on finding itself
\* Open, only through state() or the entry of execute, and only when at
\* least reset_timeout has elapsed since the most recent recorded failure.
C16_OpenForResetTimeout ==
    /\ ( /\ last.op = "state" \/ EnteredExecute
         /\ last.pre = "Open"
         /\ cb.state # "Open" \/ (last.op = "execute" /\ ~last.done) )
       => /\ IsSome(failed_at)
          /\ now - Unwrap(failed_at) >= reset_timeout
    /\ ( /\ last.op \in {"handle_failure", "handle_success"} \/ ReturnedExecute
         /\ last.pre = "Open" )
       => cb.state = "Open"

C16_Witness ==
    /\ EnteredExecute
    /\ ~last.done
    /\ last.pre = "Open"
    /\ reset_timeout = MaxTimeout
    /\ cb.failures > failure_threshold
    /\ now - Unwrap(failed_at) = reset_timeout

\* C17: whenever the state is Open, last_failure_time is set; an execute
\* call that finds the breaker Open is rejected or makes it HalfOpen, and
\* no operation runs with current_state Open.
C17_OpenHasFailureTime ==
    /\ cb.state = "Open" => IsSome(cb.last_failure_time)
    /\ (EnteredExecute /\ last.pre = "Open") =>
          \/ last.done /\ last.invoked = 0 /\ IsCircuitOpen(last.ret)
          \/ ~last.done /\ cb.state = "HalfOpen"
    /\ \A t \in Threads : pc[t] = "op" => current_state[t] # "Open"

C17_Witness ==
    /\ EnteredExecute
    /\ last.pre = "Open"
    /\ ~last.done
    /\ cb.state = "HalfOpen"

\* C18 as stated: with the mutex free, a failure count at or above the
\* threshold implies that the state is Open.
C18_CountAtThresholdOpen ==
    mutex.holder = None =>
        (cb.failures >= failure_threshold => cb.state = "Open")

\* C18 as amended: with the mutex free, a failure count at or above the
\* threshold implies that the state is Open or HalfOpen.
C18_CountAtThresholdNotClosed ==
    mutex.holder = None =>
        (cb.failures >= failure_threshold =>
            cb.state \in {"Open", "HalfOpen"})

C18_Witness ==
    /\ mutex.holder = None
    /\ last.op = "state"
    /\ last.pre = "Open"
    /\ cb.state = "HalfOpen"
    /\ cb.failures >= failure_threshold

\* C19: with the mutex free and the breaker Closed, the failure count is
\* below the threshold.
C19_ClosedBelowThreshold ==
    (mutex.holder = None /\ cb.state = "Closed") =>
        cb.failures < failure_threshold

C19_Witness ==
    /\ mutex.holder = None
    /\ cb.state = "Closed"
    /\ ReturnedExecute
    /\ ~last.result.ok
    /\ cb.failures = failure_threshold - 1
    /\ \E t \in Threads : pc[t] = "op"

\* C20: an execute call rejected with CircuitOpen changes nothing of the
\* breaker and invokes no callback.
C20_RejectionChangesNothing ==
    [][ (last'.op = "execute" /\ last'.phase = "enter" /\ last'.done) =>
            /\ IsCircuitOpen(last'.ret)
            /\ cb' = cb
            /\ last'.fired = << >>
            /\ mutex' = mutex
            /\ pc' = pc ]_vars

C20_Witness ==
    /\ EnteredExecute
    /\ last.done
    /\ IsCircuitOpen(last.ret)
    /\ IsSome(cb.on_open)
    /\ IsSome(cb.on_close)
    /\ IsSome(cb.on_half_open)

\* C21: each setter replaces only its own callback slot (state, failure
\* count, last_failure_time and the other two slots unchanged, no callback
\* invoked), no other operation changes a slot, and every callback a
\* transition invokes is the closure registered last in its slot.
SetterOps == {"set_on_open", "set_on_close", "set_on_half_open"}

\* The callback slot of struct s that a setter or an invocation names.
SlotOf(s, slot) ==
    CASE slot \in {"on_open", "set_on_open"}           -> s.on_open
      [] slot \in {"on_close", "set_on_close"}         -> s.on_close
      [] slot \in {"on_half_open", "set_on_half_open"} -> s.on_half_open

\* The callbacks invoked by the operation that has just acted: for the
\* return of execute, those after the ones its entry invoked.
FiredBy(l, entered) ==
    IF "fired" \notin DOMAIN l THEN << >>
    ELSE IF l.op = "execute" /\ l.phase = "return"
         THEN SubSeq(l.fired, Len(entered[l.t].fired) + 1, Len(l.fired))
         ELSE l.fired

C21_SettersReplaceOwnSlot ==
    [][ /\ last'.op \in SetterOps =>
            /\ SlotOf(cb', last'.op) = Some(last'.arg)
            /\ \A o \in SetterOps \ {last'.op} :
                    SlotOf(cb', o) = SlotOf(cb, o)
            /\ cb'.state = cb.state
            /\ cb'.failures = cb.failures
            /\ cb'.last_failure_time = cb.last_failure_time
            /\ last'.fired = << >>
            /\ mutex' = mutex
        /\ last'.op \notin SetterOps =>
            \A o \in SetterOps : SlotOf(cb', o) = SlotOf(cb, o)
        /\ LET f == FiredBy(last', call) IN
            \A i \in 1..Len(f) : SlotOf(cb, f[i].slot) = Some(f[i].id)
      ]_vars

\* A setter has just replaced a registered on_open closure by a different
\* one, on an Open breaker whose other two slots are filled.
C21_Witness ==
    /\ last.op = "set_on_open"
    /\ IsSome(last.replaced)
    /\ Unwrap(last.replaced) # last.arg
    /\ cb.on_open = Some(last.arg)
    /\ cb.state = "Open"
    /\ cb.failures > 0
    /\ IsSome(cb.last_failure_time)
    /\ IsSome(cb.on_close)
    /\ IsSome(cb.on_half_open)

====
